---- MODULE Spec2Model ----
(***************************************************************************)
(* Model of the 8-bit ALU emulator: cpu.hpp (constants, bit helpers,       *)
(* terminal input), alu.hpp (calculate, print, calculate_by_input) and     *)
(* main.cpp (five examples followed by the endless input loop).            *)
(***************************************************************************)
EXTENDS Integers, Sequences, FiniteSets, TLC

(***************************************************************************)
(* cpu.hpp: operation codes and status flag positions.                     *)
(***************************************************************************)
NOP == 0
OR == 1
AND == 2
XOR == 3
ADD == 4
SUB == 5

S == 4
N == 3
Z == 2
V == 1
C == 0

(***************************************************************************)
(* Widths of the C++ integer types used by the code.                       *)
(***************************************************************************)
Uint8Mod == 256
Uint16Mod == 65536
IntMax == 2147483647

Byte == 0 .. (Uint8Mod - 1)

(* static_cast<std::uint8_t>(x) and the implicit conversion to uint8_t.    *)
ToUint8(x) == x % Uint8Mod

(* implicit conversion of an int to std::uint16_t.                         *)
ToUint16(x) == x % Uint16Mod

(***************************************************************************)
(* The built-in operators |, & and ^ on non-negative integers.             *)
(***************************************************************************)
RECURSIVE BitOr(_, _)
BitOr(x, y) ==
  IF x = 0 THEN y
  ELSE IF y = 0 THEN x
  ELSE (IF x % 2 = 1 \/ y % 2 = 1 THEN 1 ELSE 0) + 2 * BitOr(x \div 2, y \div 2)

RECURSIVE BitAnd(_, _)
BitAnd(x, y) ==
  IF x = 0 \/ y = 0 THEN 0
  ELSE (IF x % 2 = 1 /\ y % 2 = 1 THEN 1 ELSE 0) + 2 * BitAnd(x \div 2, y \div 2)

RECURSIVE BitXor(_, _)
BitXor(x, y) ==
  IF x = 0 THEN y
  ELSE IF y = 0 THEN x
  ELSE (IF x % 2 # y % 2 THEN 1 ELSE 0) + 2 * BitXor(x \div 2, y \div 2)

(* 1 << bit *)
Shl1(bit) == 2 ^ bit

(* cpu::set: reg |= (1 << bit), on an 8-bit register.                      *)
set(reg, bit) == ToUint8(BitOr(reg, Shl1(bit)))

(* cpu::clr: reg &= ~(1 << bit), on an 8-bit register.                     *)
clr(reg, bit) == BitAnd(reg, (Uint8Mod - 1) - Shl1(bit))

(* cpu::read: reg & (1 << bit); nonzero iff the bit is high.               *)
read(reg, bit) == BitAnd(reg, Shl1(bit))

(* The mask cleared on entry of calculate.                                 *)
FlagMask ==
  BitOr(Shl1(S), BitOr(Shl1(N), BitOr(Shl1(Z), BitOr(Shl1(V), Shl1(C)))))

(* Variant: the register is not cleared on entry.                          *)
ClearFlags_kept(sr) == sr

(* sr &= ~(flag mask): bits 5..7 of the register are kept.                 *)
ClearFlags(sr) == BitAnd(sr, (Uint8Mod - 1) - FlagMask)

(***************************************************************************)
(* alu::calculate, step by step.  Widened is the std::uint16_t `result`    *)
(* after the switch; Overflowed is whether the switch executed set(sr, V). *)
(***************************************************************************)
(* Variant: the operands of the subtraction are swapped.                   *)
Widened_swapped(operation, a, b) ==
  IF operation = OR THEN ToUint16(BitOr(a, b))
  ELSE IF operation = AND THEN ToUint16(BitAnd(a, b))
  ELSE IF operation = XOR THEN ToUint16(BitXor(a, b))
  ELSE IF operation = ADD THEN ToUint16(a + b)
  ELSE IF operation = SUB THEN
    LET r == ToUint16(b - a)
    IN  IF b < a THEN ToUint16(r + 256) ELSE r
  ELSE 0

(* Variant: an unknown operation passes operand a through.                 *)
Widened_passthrough(operation, a, b) ==
  IF operation = OR THEN ToUint16(BitOr(a, b))
  ELSE IF operation = AND THEN ToUint16(BitAnd(a, b))
  ELSE IF operation = XOR THEN ToUint16(BitXor(a, b))
  ELSE IF operation = ADD THEN ToUint16(a + b)
  ELSE IF operation = SUB THEN
    LET r == ToUint16(a - b)
    IN  IF a < b THEN ToUint16(r + 256) ELSE r
  ELSE a

Widened(operation, a, b) ==
  IF operation = OR THEN ToUint16(BitOr(a, b))
  ELSE IF operation = AND THEN ToUint16(BitAnd(a, b))
  ELSE IF operation = XOR THEN ToUint16(BitXor(a, b))
  ELSE IF operation = ADD THEN ToUint16(a + b)
  ELSE IF operation = SUB THEN
    LET r == ToUint16(a - b)
    IN  IF a < b THEN ToUint16(r + 256) ELSE r
  ELSE 0

(* Variant: the subtraction compares the result's sign with operand a.     *)
Overflowed_signOfA(operation, a, b, result) ==
  IF operation = ADD THEN
    (read(a, 7) = read(b, 7)) /\ (read(a, 7) # read(result, 7))
  ELSE IF operation = SUB THEN
    (read(a, 7) # read(b, 7)) /\ (read(a, 7) = read(result, 7))
  ELSE FALSE

Overflowed(operation, a, b, result) ==
  IF operation = ADD THEN
    (read(a, 7) = read(b, 7)) /\ (read(a, 7) # read(result, 7))
  ELSE IF operation = SUB THEN
    (read(a, 7) # read(b, 7)) /\ (read(b, 7) = read(result, 7))
  ELSE FALSE

(* Variant: the Carry flag is taken from bit 7 of the widened result.      *)
calculate_carry7(operation, a, b, sr) ==
  LET result == Widened(operation, a, b)
      sr0 == ClearFlags(sr)
      sr1 == IF Overflowed(operation, a, b, result) THEN set(sr0, V) ELSE sr0
      sr2 == IF read(result, 7) # 0 THEN set(sr1, C) ELSE sr1
      sr3 == IF result = 0 THEN set(sr2, Z) ELSE sr2
      sr4 == IF read(result, 7) # 0 THEN set(sr3, N) ELSE sr3
      sr5 == IF (read(sr4, N) # 0) # (read(sr4, V) # 0) THEN set(sr4, S) ELSE sr4
  IN  [result |-> ToUint8(result), sr |-> sr5]

(* Variant: the Signed flag is derived before the Negative flag is set.    *)
calculate_signedEarly(operation, a, b, sr) ==
  LET result == Widened(operation, a, b)
      sr0 == ClearFlags(sr)
      sr1 == IF Overflowed(operation, a, b, result) THEN set(sr0, V) ELSE sr0
      sr2 == IF read(result, 8) # 0 THEN set(sr1, C) ELSE sr1
      sr3 == IF result = 0 THEN set(sr2, Z) ELSE sr2
      sr4 == IF (read(sr3, N) # 0) # (read(sr3, V) # 0) THEN set(sr3, S) ELSE sr3
      sr5 == IF read(result, 7) # 0 THEN set(sr4, N) ELSE sr4
  IN  [result |-> ToUint8(result), sr |-> sr5]

calculate(operation, a, b, sr) ==
  LET result == Widened(operation, a, b)
      sr0 == ClearFlags(sr)
      sr1 == IF Overflowed(operation, a, b, result) THEN set(sr0, V) ELSE sr0
      sr2 == IF read(result, 8) # 0 THEN set(sr1, C) ELSE sr1
      sr3 == IF result = 0 THEN set(sr2, Z) ELSE sr2
      sr4 == IF read(result, 7) # 0 THEN set(sr3, N) ELSE sr3
      sr5 == IF (read(sr4, N) # 0) # (read(sr4, V) # 0) THEN set(sr4, S) ELSE sr4
  IN  [result |-> ToUint8(result), sr |-> sr5]

(* Variant: the rendering is decided by the N flag.                        *)
get_signed_sr_byN(num, sr) == IF read(sr, N) # 0 THEN num - 256 ELSE num

(* cpu::get_signed(num, sr): signed rendering decided by the S flag.       *)
get_signed_sr(num, sr) == IF read(sr, S) # 0 THEN num - 256 ELSE num

(* cpu::get_signed(num): signed rendering decided by bit 7.                *)
get_signed(num) == IF read(num, 7) # 0 THEN num - 256 ELSE num

(* cpu::get_op_code: exact, case-sensitive match of the instruction name.   *)
(* A line of text is a sequence of one-character strings.                  *)
get_op_code(instruction_name) ==
  IF instruction_name = <<"O", "R">> THEN OR
  ELSE IF instruction_name = <<"A", "N", "D">> THEN AND
  ELSE IF instruction_name = <<"X", "O", "R">> THEN XOR
  ELSE IF instruction_name = <<"A", "D", "D">> THEN ADD
  ELSE IF instruction_name = <<"S", "U", "B">> THEN SUB
  ELSE NOP

(***************************************************************************)
(* std::stoi as read_byte uses it: skip leading white space, take an       *)
(* optional sign, then the longest prefix of decimal digits.  No digit     *)
(* gives invalid_argument, a value outside int gives out_of_range.         *)
(***************************************************************************)
IsSpace(c) == c \in {" ", "\t"}

IsDigit(c) == c \in {"0", "1", "2", "3", "4", "5", "6", "7", "8", "9"}

DigitVal(c) ==
  CASE c = "0" -> 0 [] c = "1" -> 1 [] c = "2" -> 2 [] c = "3" -> 3
    [] c = "4" -> 4 [] c = "5" -> 5 [] c = "6" -> 6 [] c = "7" -> 7
    [] c = "8" -> 8 [] c = "9" -> 9

RECURSIVE SkipSpace(_)
SkipSpace(s) ==
  IF s # <<>> /\ IsSpace(Head(s)) THEN SkipSpace(Tail(s)) ELSE s

(* Accumulates the digits as a non-positive number so that the most        *)
(* negative int is representable; "range" marks a value outside int.       *)
RECURSIVE Digits(_, _, _)
Digits(s, acc, neg) ==
  IF s = <<>> \/ ~IsDigit(Head(s)) THEN [kind |-> "ok", value |-> acc]
  ELSE LET d == DigitVal(Head(s))
           lim == IntMax \div 10
           last == IF neg THEN (IntMax % 10) + 1 ELSE IntMax % 10
       IN  IF (-acc) < lim \/ ((-acc) = lim /\ d <= last)
           THEN Digits(Tail(s), acc * 10 - d, neg)
           ELSE [kind |-> "out_of_range", value |-> 0]

stoi(s) ==
  LET t == SkipSpace(s)
      signed == t # <<>> /\ Head(t) \in {"+", "-"}
      neg == t # <<>> /\ Head(t) = "-"
      u == IF signed THEN Tail(t) ELSE t
  IN  IF u = <<>> \/ ~IsDigit(Head(u))
      THEN [kind |-> "invalid_argument", value |-> 0]
      ELSE LET r == Digits(u, 0, neg)
           IN  IF r.kind = "ok"
               THEN [kind |-> "ok", value |-> IF neg THEN r.value ELSE -r.value]
               ELSE r

(***************************************************************************)
(* The lines of text the terminal may deliver.                             *)
(***************************************************************************)
DigitChar(d) ==
  CASE d = 0 -> "0" [] d = 1 -> "1" [] d = 2 -> "2" [] d = 3 -> "3"
    [] d = 4 -> "4" [] d = 5 -> "5" [] d = 6 -> "6" [] d = 7 -> "7"
    [] d = 8 -> "8" [] d = 9 -> "9"

RECURSIVE Decimal(_)
Decimal(n) ==
  IF n < 10 THEN <<DigitChar(n)>>
  ELSE Append(Decimal(n \div 10), DigitChar(n % 10))

(* Largest number typed as an operand; above 255 the cast truncates.       *)
MaxTyped == 257

OpLines ==
  { <<"O", "R">>, <<"A", "N", "D">>, <<"X", "O", "R">>, <<"A", "D", "D">>,
    <<"S", "U", "B">>, <<"N", "O", "P">>, <<"a", "d", "d">>, <<"A", "D", "D", " ">>,
    <<"4">>, <<>> }

ByteLines ==
  { Decimal(n) : n \in 0 .. MaxTyped } \cup
  { <<>>, <<"x">>, <<"-">>, <<"-", "1">>, <<"+", "7">>, <<" ", "9">>,
    <<"1", "2", "x">>, <<"O", "R">>,
    <<"2", "1", "4", "7", "4", "8", "3", "6", "4", "7">>,
    <<"2", "1", "4", "7", "4", "8", "3", "6", "4", "8">>,
    <<"-", "2", "1", "4", "7", "4", "8", "3", "6", "4", "8">>,
    <<"-", "2", "1", "4", "7", "4", "8", "3", "6", "4", "9">> }

(***************************************************************************)
(* main.cpp: the five example calls, with the int arguments as written.    *)
(***************************************************************************)
Examples ==
  << [operation |-> ADD, a |-> 100, b |-> 50],
     [operation |-> SUB, a |-> -100, b |-> 50],
     [operation |-> AND, a |-> 36, b |-> Shl1(5)],
     [operation |-> OR, a |-> 32, b |-> Shl1(0)],
     [operation |-> ADD, a |-> -5, b |-> 10] >>

(***************************************************************************)
(* State.                                                                  *)
(*   pc                  position of the program                           *)
(*   ex                  number of examples main has printed               *)
(*   op_code, op1, op2   locals of calculate_by_input                      *)
(*   evaluated           a call of calculate has returned and its frame    *)
(*                       (operation, a, b, result, sr) is being shown      *)
(*   sr_entry            the status register as that call received it      *)
(***************************************************************************)
VARIABLES pc, ex, op_code, op1, op2, evaluated, operation, a, b, result, sr,
          sr_entry

vars ==
  <<pc, ex, op_code, op1, op2, evaluated, operation, a, b, result, sr, sr_entry>>

locals == <<op_code, op1, op2>>

frame == <<evaluated, operation, a, b, result, sr, sr_entry>>

Init ==
  /\ pc = "main"
  /\ ex = 0
  /\ op_code = 0 /\ op1 = 0 /\ op2 = 0
  /\ evaluated = FALSE
  /\ operation = 0 /\ a = 0 /\ b = 0 /\ result = 0 /\ sr = 0 /\ sr_entry = 0

(* The frame of the last print is gone once the program reads again.       *)
DropFrame ==
  /\ evaluated' = FALSE
  /\ operation' = 0 /\ a' = 0 /\ b' = 0 /\ result' = 0 /\ sr' = 0 /\ sr_entry' = 0

(* alu::print(operation, a, b): a fresh status register, one calculate.    *)
print(o, x, y) ==
  LET r == calculate(o, x, y, 0)
  IN  /\ evaluated' = TRUE
      /\ operation' = o /\ a' = x /\ b' = y
      /\ result' = r.result /\ sr' = r.sr /\ sr_entry' = 0

(* main: the next of the five examples.                                    *)
PrintExample ==
  /\ pc = "main" /\ ex < Len(Examples)
  /\ LET e == Examples[ex + 1]
     IN  print(ToUint8(e.operation), ToUint8(e.a), ToUint8(e.b))
  /\ ex' = ex + 1
  /\ pc' = IF ex + 1 = Len(Examples) THEN "read_op_code" ELSE "main"
  /\ UNCHANGED locals

(* Variant: the code is returned without the test against NOP.             *)
read_op_code_unchecked ==
  /\ pc = "read_op_code"
  /\ \E s \in OpLines :
       /\ op_code' = get_op_code(s)
       /\ pc' = "read_op1"
       /\ UNCHANGED <<op1, op2>>
  /\ DropFrame
  /\ UNCHANGED ex

(* cpu::read_op_code: one pass of its loop.                                *)
read_op_code ==
  /\ pc = "read_op_code"
  /\ \E s \in OpLines :
       LET code == get_op_code(s)
       IN  IF code = NOP
           THEN UNCHANGED <<pc, locals>>
           ELSE /\ op_code' = code
                /\ pc' = "read_op1"
                /\ UNCHANGED <<op1, op2>>
  /\ DropFrame
  /\ UNCHANGED ex

(* cpu::read_byte: one pass of its loop, for the first or second operand.  *)
read_byte ==
  /\ pc \in {"read_op1", "read_op2"}
  /\ \E s \in ByteLines :
       LET r == stoi(s)
       IN  CASE r.kind = "invalid_argument" -> UNCHANGED <<pc, locals>>
             [] r.kind = "out_of_range" ->
                  /\ pc' = "terminated"
                  /\ UNCHANGED locals
             [] r.kind = "ok" ->
                  IF pc = "read_op1"
                  THEN /\ op1' = ToUint8(r.value)
                       /\ pc' = "read_op2"
                       /\ UNCHANGED <<op_code, op2>>
                  ELSE /\ op2' = ToUint8(r.value)
                       /\ pc' = "print"
                       /\ UNCHANGED <<op_code, op1>>
  /\ UNCHANGED <<ex, frame>>

(* alu::calculate_by_input: the closing print(op_code, op1, op2).          *)
calculate_by_input ==
  /\ pc = "print"
  /\ print(op_code, op1, op2)
  /\ op_code' = 0 /\ op1' = 0 /\ op2' = 0
  /\ pc' = "read_op_code"
  /\ UNCHANGED ex

Next == PrintExample \/ read_op_code \/ read_byte \/ calculate_by_input

Spec == Init /\ [][Next]_vars

(***************************************************************************)
(* calculate called directly by a caller that owns one status register     *)
(* and passes it to every call: the register starts with any value, and    *)
(* the caller picks the operation code and the operands of each call.      *)
(***************************************************************************)
(* Largest operation code the caller passes, besides the top code 255.     *)
MaxOpCode == 7

OpCodes == (0 .. MaxOpCode) \cup {Uint8Mod - 1}

Operands == {0, 1, 50, 100, 127, 128, 156, 200, 254, 255}

InitShared ==
  /\ pc = "select_operation"
  /\ ex = 0
  /\ op_code = 0 /\ op1 = 0 /\ op2 = 0
  /\ evaluated = FALSE
  /\ operation = 0 /\ a = 0 /\ b = 0 /\ result = 0
  /\ sr \in Byte
  /\ sr_entry = 0

SelectOperation ==
  /\ pc = "select_operation"
  /\ \E o \in OpCodes : operation' = o
  /\ evaluated' = FALSE /\ a' = 0 /\ b' = 0 /\ result' = 0 /\ sr_entry' = 0
  /\ pc' = "select_a"
  /\ UNCHANGED <<ex, locals, sr>>

SelectA ==
  /\ pc = "select_a"
  /\ \E x \in Operands : a' = x
  /\ pc' = "select_b"
  /\ UNCHANGED <<ex, locals, evaluated, operation, b, result, sr, sr_entry>>

SelectB ==
  /\ pc = "select_b"
  /\ \E y \in Operands : b' = y
  /\ pc' = "call"
  /\ UNCHANGED <<ex, locals, evaluated, operation, a, result, sr, sr_entry>>

(* result = calculate(operation, a, b, sr) on the caller's register.       *)
Call ==
  /\ pc = "call"
  /\ LET r == calculate(operation, a, b, sr)
     IN  result' = r.result /\ sr' = r.sr
  /\ sr_entry' = sr
  /\ evaluated' = TRUE
  /\ pc' = "select_operation"
  /\ UNCHANGED <<ex, locals, operation, a, b>>

NextShared == SelectOperation \/ SelectA \/ SelectB \/ Call

SpecShared == InitShared /\ [][NextShared]_vars

(***************************************************************************)
(* Vocabulary of the properties.                                           *)
(***************************************************************************)
Flag(reg, bit) == read(reg, bit) # 0

(* Bit i of x, by division.                                                *)
Bit(x, i) == (x \div (2 ^ i)) % 2

(* Two's-complement reading of a byte.                                     *)
SignedOf(x) == IF x >= 128 THEN x - 256 ELSE x

Defined == {OR, AND, XOR, ADD, SUB}

TypeOK ==
  /\ op_code \in Byte /\ op1 \in Byte /\ op2 \in Byte
  /\ operation \in Byte /\ a \in Byte /\ b \in Byte
  /\ result \in Byte /\ sr \in Byte /\ sr_entry \in Byte
  /\ evaluated \in BOOLEAN

(***************************************************************************)
(* C1: after calculate(SUB, a, b, sr) the Carry flag (bit 0 of sr) is set  *)
(* if and only if a < b.                                                   *)
(***************************************************************************)
C1_SubCarryIffBorrow ==
  (evaluated /\ operation = SUB) => (Flag(sr, C) <=> a < b)

(***************************************************************************)
(* C2: for each of the five operations the Zero flag is set if and only    *)
(* if the returned result byte equals 0, also when the widened result is   *)
(* 256.                                                                    *)
(***************************************************************************)
C2_ZeroIffResultByteZero ==
  (evaluated /\ operation \in Defined) => (Flag(sr, Z) <=> result = 0)

(***************************************************************************)
(* C3: the returned byte is the 8-bit truncation of the true result:       *)
(* OR, AND and XOR bit by bit, ADD (a+b) mod 256, SUB (a-b) mod 256.       *)
(***************************************************************************)
C3_ResultIsTruncation ==
  evaluated =>
    /\ result \in Byte
    /\ operation = OR =>
         \A i \in 0 .. 7 : Bit(result, i) = 1 <=> (Bit(a, i) = 1 \/ Bit(b, i) = 1)
    /\ operation = AND =>
         \A i \in 0 .. 7 : Bit(result, i) = 1 <=> (Bit(a, i) = 1 /\ Bit(b, i) = 1)
    /\ operation = XOR =>
         \A i \in 0 .. 7 : Bit(result, i) = 1 <=> (Bit(a, i) # Bit(b, i))
    /\ operation = ADD => result = (a + b) % 256
    /\ operation = SUB => result = (a - b) % 256

(* A subtraction that wraps around has been evaluated.                     *)
C3_Witness ==
  evaluated /\ operation = SUB /\ a < b /\ result = a - b + 256

(***************************************************************************)
(* C4: after ADD the Carry flag is set if and only if a + b >= 256; after  *)
(* OR, AND or XOR the Carry flag is never set.                             *)
(***************************************************************************)
C4_AddCarry ==
  evaluated =>
    /\ operation = ADD => (Flag(sr, C) <=> a + b >= 256)
    /\ operation \in {OR, AND, XOR} => ~Flag(sr, C)

(* An addition whose sum does not fit in a byte has been evaluated.        *)
C4_Witness ==
  evaluated /\ operation = ADD /\ a + b >= 256 /\ Flag(sr, C)

(***************************************************************************)
(* C5: for ADD and SUB the Overflow flag is set exactly when the true      *)
(* signed result lies outside [-128, 127]; for OR, AND and XOR it is       *)
(* never set.                                                              *)
(***************************************************************************)
C5_OverflowIsSignedOverflow ==
  evaluated =>
    /\ operation = ADD =>
         (Flag(sr, V) <=> (SignedOf(a) + SignedOf(b)) \notin -128 .. 127)
    /\ operation = SUB =>
         (Flag(sr, V) <=> (SignedOf(a) - SignedOf(b)) \notin -128 .. 127)
    /\ operation \in {OR, AND, XOR} => ~Flag(sr, V)

(* A subtraction that overflows below -128 has been evaluated.             *)
C5_Witness ==
  evaluated /\ operation = SUB /\ SignedOf(a) - SignedOf(b) < -128 /\ Flag(sr, V)

(***************************************************************************)
(* C6: for ADD and SUB, get_signed(result, sr) equals the true value       *)
(* get_signed(a) + get_signed(b), respectively get_signed(a) -             *)
(* get_signed(b), also under overflow.                                     *)
(***************************************************************************)
C6_SignedRendering ==
  evaluated =>
    /\ operation = ADD =>
         get_signed_sr(result, sr) = get_signed(a) + get_signed(b)
    /\ operation = SUB =>
         get_signed_sr(result, sr) = get_signed(a) - get_signed(b)

(* An addition that overflows above 127 has been rendered.                 *)
C6_Witness ==
  /\ evaluated /\ operation = ADD /\ Flag(sr, V)
  /\ get_signed(a) + get_signed(b) > 127
  /\ get_signed_sr(result, sr) = result

(***************************************************************************)
(* C7: after every call of calculate, whatever the operation code, the     *)
(* Signed flag is set iff exactly one of Negative and Overflow is set,     *)
(* and the Negative flag equals bit 7 of the returned byte.                *)
(***************************************************************************)
C7_SignedIsNegativeXorOverflow ==
  evaluated =>
    /\ Flag(sr, S) <=> (Flag(sr, N) # Flag(sr, V))
    /\ Flag(sr, N) <=> Bit(result, 7) = 1

(* A call that left Overflow set, Negative clear and so Signed set.        *)
C7_Witness ==
  evaluated /\ Flag(sr, V) /\ ~Flag(sr, N) /\ Flag(sr, S)

(***************************************************************************)
(* C8: with one status register shared by a sequence of calls and any      *)
(* initial value of it, the result byte and the flag bits S,N,Z,V,C after  *)
(* a call are those the same (operation, a, b) gives on a cleared          *)
(* register: nothing of the register's earlier content reaches them.       *)
(***************************************************************************)
C8_NoHiddenState ==
  evaluated =>
    /\ result = calculate(operation, a, b, 0).result
    /\ BitAnd(sr, FlagMask) = calculate(operation, a, b, 0).sr

(* A call that found all five flags set in the register and left none.     *)
C8_Witness ==
  /\ evaluated
  /\ BitAnd(sr_entry, FlagMask) = FlagMask
  /\ BitAnd(sr, FlagMask) = 0

(***************************************************************************)
(* C9: an operation code outside the five defined ones gives result 0      *)
(* with Carry, Overflow, Negative and Signed clear and Zero set, whatever  *)
(* a and b are.                                                            *)
(***************************************************************************)
C9_UnknownOperation ==
  (evaluated /\ operation \notin Defined) =>
    /\ result = 0
    /\ BitAnd(sr, FlagMask) = Shl1(Z)

(* An undefined operation code was evaluated on nonzero operands.          *)
C9_Witness ==
  evaluated /\ operation > SUB /\ a # 0 /\ b # 0 /\ result = 0

(***************************************************************************)
(* C10: in every execution of the program calculate is only invoked with   *)
(* an operation code among OR, AND, XOR, ADD, SUB: read_op_code returns    *)
(* only a valid code, so NOP never reaches calculate.                      *)
(***************************************************************************)
C10_NopNeverEvaluated ==
  /\ evaluated => operation \in Defined
  /\ pc \in {"read_op1", "read_op2", "print"} => op_code \in Defined

(* An operation typed at the terminal has been evaluated.                  *)
C10_Witness ==
  evaluated /\ ex = Len(Examples) /\ pc = "read_op_code" /\ operation = XOR

====
